---------------------------- MODULE Spec2Model ----------------------------
(***************************************************************************)
(* AndersonAcceleration (AndersonAcceleration.hpp): the accelerator's      *)
(* fields, init / replace / compute, and the arithmetic they perform.      *)
(*                                                                         *)
(* Scalars.  TLC has only 32-bit integers, so a Scalar is carried exactly  *)
(* as <<n, d, e>>, the number (n / d) * 10^e, in a canonical form (n and d *)
(* coprime, d > 0, neither a multiple of 5, zero = <<0,1,0>>).             *)
(* Arithmetic is exact: the rounding of double is not modelled.  <<0,0,0>> *)
(* is the result of a division by zero and of any operation on it.         *)
(*                                                                         *)
(* Vectors and matrices are 0-based functions, as Eigen indexes them:      *)
(* v[k], A[row][col].  prev_dF_ and prev_dG_ are dim_ x m_, M_ is m_ x m_. *)
(*                                                                         *)
(* The Euclidean norm of a vector of one component is the absolute value,  *)
(* which is exact; the norm of a longer vector is irrational in general,   *)
(* so the calls explored pass d = 1 (Dims).                                *)
(***************************************************************************)
EXTENDS Integers, Sequences, FiniteSets, TLC

-----------------------------------------------------------------------------
(* Integer helpers *)

Abs(x) == IF x < 0 THEN -x ELSE x

Min(a, b) == IF a < b THEN a ELSE b

RECURSIVE Gcd(_, _)
Gcd(a, b) == IF b = 0 THEN a ELSE Gcd(b, a % b)

RECURSIVE Pow10(_)
Pow10(k) == IF k = 0 THEN 1 ELSE 10 * Pow10(k - 1)

\* The largest r in lo..hi with r * r <= n (lo * lo <= n is given).
RECURSIVE ISqrtIn(_, _, _)
ISqrtIn(n, lo, hi) ==
    IF lo = hi THEN lo
    ELSE LET mid == (lo + hi + 1) \div 2
         IN  IF mid * mid <= n THEN ISqrtIn(n, mid, hi)
             ELSE ISqrtIn(n, lo, mid - 1)

ISqrt(n) == ISqrtIn(n, 0, Min(n, 46340))

-----------------------------------------------------------------------------
(* Scalar: exact arithmetic on (n / d) * 10^e *)

Zero == <<0, 1, 0>>

NaN == <<0, 0, 0>>

IsNaN(a) == a[2] = 0

\* Moves the factors 5 of n and of d into e.
RECURSIVE Strip(_, _, _)
Strip(n, d, e) ==
    IF n % 5 = 0 THEN Strip(n \div 5, 2 * d, e + 1)
    ELSE IF d % 5 = 0 THEN Strip(2 * n, d \div 5, e - 1)
    ELSE LET g == Gcd(Abs(n), d)
         IN  <<n \div g, d \div g, e>>

\* The canonical form of (n / d) * 10^e, d > 0.
Canon(n, d, e) ==
    IF n = 0 THEN Zero
    ELSE LET g == Gcd(Abs(n), d)
         IN  Strip(n \div g, d \div g, e)

Num(k) == Canon(k, 1, 0)

Neg(a) == <<-a[1], a[2], a[3]>>

Add(a, b) ==
    IF IsNaN(a) \/ IsNaN(b) THEN NaN
    ELSE IF a[1] = 0 THEN b
    ELSE IF b[1] = 0 THEN a
    ELSE LET e  == Min(a[3], b[3])
             na == a[1] * Pow10(a[3] - e)
             nb == b[1] * Pow10(b[3] - e)
             g  == Gcd(a[2], b[2])
         IN  Canon(na * (b[2] \div g) + nb * (a[2] \div g),
                   (a[2] \div g) * b[2], e)

Sub(a, b) == Add(a, Neg(b))

Mul(a, b) ==
    IF IsNaN(a) \/ IsNaN(b) THEN NaN
    ELSE IF a[1] = 0 \/ b[1] = 0 THEN Zero
    ELSE LET g1 == Gcd(Abs(a[1]), b[2])
             g2 == Gcd(Abs(b[1]), a[2])
         IN  Canon((a[1] \div g1) * (b[1] \div g2),
                   (a[2] \div g2) * (b[2] \div g1), a[3] + b[3])

\* 1 / b for b # 0
Inv(b) == IF b[1] < 0 THEN Canon(-b[2], -b[1], -b[3])
          ELSE Canon(b[2], b[1], -b[3])

Div(a, b) ==
    IF IsNaN(a) \/ IsNaN(b) \/ b[1] = 0 THEN NaN
    ELSE Mul(a, Inv(b))

\* x * 10^k < y, for integers x, y > 0 and k >= 0, without leaving 32 bits.
RECURSIVE ScaledLess(_, _, _)
ScaledLess(x, y, k) ==
    IF k = 0 THEN x < y
    ELSE IF x >= y \/ x > 214748364 THEN FALSE
    ELSE ScaledLess(10 * x, y, k - 1)

\* a < b for a, b > 0
PosLess(a, b) ==
    LET x == a[1] * b[2]
        y == b[1] * a[2]
    IN  IF a[3] >= b[3] THEN ScaledLess(x, y, a[3] - b[3])
        ELSE ~ ScaledLess(y, x + 1, b[3] - a[3])

\* a < b; a comparison with NaN is false, as in IEEE 754.
Less(a, b) ==
    IF IsNaN(a) \/ IsNaN(b) THEN FALSE
    ELSE IF a[1] <= 0 /\ b[1] > 0 THEN TRUE
    ELSE IF a[1] >= 0 /\ b[1] <= 0 THEN FALSE
    ELSE IF a[1] > 0 THEN PosLess(a, b)
    ELSE IF b[1] = 0 THEN TRUE
    ELSE PosLess(Neg(b), Neg(a))

\* std::max(a, b): (a < b) ? b : a
Max(a, b) == IF Less(a, b) THEN b ELSE a

\* std::sqrt of a >= 0: exact on the squares of scalars, which is every
\* squared norm of a vector of one component; rounded down elsewhere.
Sqrt(a) ==
    IF IsNaN(a) \/ a[1] < 0 THEN NaN
    ELSE IF a[3] % 2 = 0 THEN Canon(ISqrt(a[1]), ISqrt(a[2]), a[3] \div 2)
    ELSE Canon(ISqrt(10 * a[1]), ISqrt(a[2]), (a[3] - 1) \div 2)

-----------------------------------------------------------------------------
(* VectorX / MatrixXX: the Eigen operations the class uses *)

Size(v) == Cardinality(DOMAIN v)

Rows(A) == Size(A)

Cols(A) == IF Size(A) = 0 THEN 0 ELSE Size(A[0])

\* The vector of n components F(0), ..., F(n - 1), each evaluated once
Tab(n, F(_)) ==
    LET T[k \in 0 .. n] ==
            IF k = 0 THEN << >> ELSE T[k - 1] @@ ((k - 1) :> F(k - 1))
    IN  IF n <= 0 THEN << >> ELSE T[n]

\* f[0] + ... + f[n-1], summed in index order
RECURSIVE SumTo(_, _)
SumTo(f, n) == IF n = 0 THEN Zero ELSE Add(SumTo(f, n - 1), f[n - 1])

VNeg(v) == Tab(Size(v), LAMBDA k : Neg(v[k]))

VAdd(u, v) == Tab(Size(u), LAMBDA k : Add(u[k], v[k]))

VSub(u, v) == Tab(Size(u), LAMBDA k : Sub(u[k], v[k]))

VDiv(v, s) == Tab(Size(v), LAMBDA k : Div(v[k], s))

Dot(u, v) == SumTo(Tab(Size(u), LAMBDA k : Mul(u[k], v[k])), Size(u))

SquaredNorm(v) == Dot(v, v)

Norm(v) == Sqrt(SquaredNorm(v))

\* A.col(j)
Col(A, j) == Tab(Rows(A), LAMBDA k : A[k][j])

\* A.col(j) = v
SetCol(A, j, v) == Tab(Rows(A), LAMBDA k : [A[k] EXCEPT ![j] = v[k]])

\* A.block(0, 0, rows, n) * x, x of length n
BlockTimes(A, n, x) ==
    Tab(Rows(A), LAMBDA k : SumTo(Tab(n, LAMBDA j : Mul(A[k][j], x[j])), n))

\* A.block(0, 0, rows, n).transpose() * v
BlockTransposeTimes(A, n, v) == Tab(n, LAMBDA j : Dot(Col(A, j), v))

\* v.resize(n): Eigen keeps the storage when the size is unchanged and
\* allocates new, unset storage otherwise; heap is what unset storage holds.
ResizeVec(v, n, heap) ==
    IF Size(v) = n THEN v ELSE Tab(n, LAMBDA k : heap)

\* A.resize(r, c), likewise (a resize that keeps r * c and changes the
\* shape does not occur with one row or with r = c).
ResizeMat(A, r, c, heap) ==
    IF Rows(A) = r /\ Cols(A) = c THEN A
    ELSE Tab(r, LAMBDA i : Tab(c, LAMBDA j : heap))

\* The Moore-Penrose inverse of the leading r x k block of A, a k x r
\* matrix, by Greville's column recursion.
RECURSIVE PseudoInverse(_, _, _)
PseudoInverse(A, r, k) ==
    LET a == Tab(r, LAMBDA i : A[i][k - 1])
    IN  IF k = 1
        THEN LET aa2 == Dot(a, a)
             IN  Tab(1, LAMBDA j : IF aa2 = Zero THEN Tab(r, LAMBDA i : Zero)
                                   ELSE VDiv(a, aa2))
        ELSE LET P  == PseudoInverse(A, r, k - 1)
                 dv == Tab(k - 1, LAMBDA j : Dot(P[j], a))
                 c  == VSub(a, Tab(r, LAMBDA i :
                            SumTo(Tab(k - 1, LAMBDA j : Mul(A[i][j], dv[j])),
                                  k - 1)))
                 cc == Dot(c, c)
                 b  == IF cc # Zero THEN VDiv(c, cc)
                       ELSE VDiv(Tab(r, LAMBDA i :
                                    SumTo(Tab(k - 1, LAMBDA j :
                                              Mul(dv[j], P[j][i])), k - 1)),
                                 Add(Num(1), Dot(dv, dv)))
             IN  Tab(k, LAMBDA j :
                    IF j < k - 1
                    THEN Tab(r, LAMBDA i : Sub(P[j][i], Mul(dv[j], b[i])))
                    ELSE b)

\* cod_.compute(A.block(0, 0, n, n)); cod_.solve(b): the minimum-norm
\* least-squares solution of A x = b, in exact arithmetic (the rank is the
\* exact rank, where Eigen's is decided by a pivot threshold).
CodSolve(A, n, b) ==
    LET P == PseudoInverse(A, n, n)
    IN  Tab(n, LAMBDA j : Dot(P[j], b))

-----------------------------------------------------------------------------
(* class AndersonAcceleration.  An instance is a record of the class's     *)
(* fields, with two more: status ("ok", or "aborted" once an assertion     *)
(* has failed and the process is gone) and ret, the vector the last call   *)
(* returned (NoValue when it returned none).                               *)

NoValue == <<"none">>

\* Scalar eps = 1e-14
eps == Canon(1, 1, -14)

\* AndersonAcceleration(): the scalars are -1, the vectors and matrices empty
AndersonAcceleration ==
    [ m_ |-> -1, dim_ |-> -1, iter_ |-> -1, col_idx_ |-> -1,
      current_u_ |-> << >>, current_F_ |-> << >>,
      prev_dG_ |-> << >>, prev_dF_ |-> << >>, M_ |-> << >>,
      theta_ |-> << >>, dF_scale_ |-> << >>,
      status |-> "ok", ret |-> NoValue ]

\* Mutant of Abort: the failed check returns early instead of aborting.
AbortAsEarlyReturn(s) == [s EXCEPT !.ret = s.current_u_]

\* assert(cond) failing: abort() ends the process; no field is written and
\* the call returns nothing.
Abort(s) == [s EXCEPT !.status = "aborted", !.ret = NoValue]

\* Mutant of init: iter_ = 0 is missing.
initKeepsIter(s, m, d, u0, heap) ==
    IF ~ (m > 0) THEN Abort(s)
    ELSE [s EXCEPT
            !.m_ = m,
            !.dim_ = d,
            !.current_u_ = u0,
            !.current_F_ = ResizeVec(s.current_F_, d, heap),
            !.prev_dG_ = ResizeMat(s.prev_dG_, d, m, heap),
            !.prev_dF_ = ResizeMat(s.prev_dF_, d, m, heap),
            !.M_ = ResizeMat(s.M_, m, m, heap),
            !.theta_ = ResizeVec(s.theta_, m, heap),
            !.dF_scale_ = ResizeVec(s.dF_scale_, m, heap),
            !.col_idx_ = 0,
            !.ret = NoValue]

\* Mutant of init: on an instance already initialized only the iterate is
\* set; the history and the counters are kept.
initOnce(s, m, d, u0, heap) ==
    IF ~ (m > 0) THEN Abort(s)
    ELSE IF s.iter_ >= 0 /\ s.m_ = m /\ s.dim_ = d
         THEN [s EXCEPT !.current_u_ = u0, !.ret = NoValue]
         ELSE [s EXCEPT
                 !.m_ = m,
                 !.dim_ = d,
                 !.current_u_ = u0,
                 !.current_F_ = ResizeVec(s.current_F_, d, heap),
                 !.prev_dG_ = ResizeMat(s.prev_dG_, d, m, heap),
                 !.prev_dF_ = ResizeMat(s.prev_dF_, d, m, heap),
                 !.M_ = ResizeMat(s.M_, m, m, heap),
                 !.theta_ = ResizeVec(s.theta_, m, heap),
                 !.dF_scale_ = ResizeVec(s.dF_scale_, m, heap),
                 !.iter_ = 0,
                 !.col_idx_ = 0,
                 !.ret = NoValue]

\* Mutant of init: the assertion comes after the assignments.
initAssertsLast(s, m, d, u0, heap) ==
    LET t == [s EXCEPT
                 !.m_ = m,
                 !.dim_ = d,
                 !.current_u_ = u0,
                 !.iter_ = 0,
                 !.col_idx_ = 0,
                 !.ret = NoValue]
    IN  IF ~ (m > 0) THEN Abort(t)
        ELSE [t EXCEPT
                 !.current_F_ = ResizeVec(s.current_F_, d, heap),
                 !.prev_dG_ = ResizeMat(s.prev_dG_, d, m, heap),
                 !.prev_dF_ = ResizeMat(s.prev_dF_, d, m, heap),
                 !.M_ = ResizeMat(s.M_, m, m, heap),
                 !.theta_ = ResizeVec(s.theta_, m, heap),
                 !.dF_scale_ = ResizeVec(s.dF_scale_, m, heap)]

\* Mutant of init: current_u_ is resized and u0 is not copied into it.
initLeavesIterate(s, m, d, u0, heap) ==
    IF ~ (m > 0) THEN Abort(s)
    ELSE [s EXCEPT
            !.m_ = m,
            !.dim_ = d,
            !.current_u_ = ResizeVec(s.current_u_, d, heap),
            !.current_F_ = ResizeVec(s.current_F_, d, heap),
            !.prev_dG_ = ResizeMat(s.prev_dG_, d, m, heap),
            !.prev_dF_ = ResizeMat(s.prev_dF_, d, m, heap),
            !.M_ = ResizeMat(s.M_, m, m, heap),
            !.theta_ = ResizeVec(s.theta_, m, heap),
            !.dF_scale_ = ResizeVec(s.dF_scale_, m, heap),
            !.iter_ = 0,
            !.col_idx_ = 0,
            !.ret = NoValue]

\* init(m, d, u0); heap is what newly allocated storage holds
init(s, m, d, u0, heap) ==
    IF ~ (m > 0) THEN Abort(s)
    ELSE [s EXCEPT
            !.m_ = m,
            !.dim_ = d,
            !.current_u_ = u0,
            !.current_F_ = ResizeVec(s.current_F_, d, heap),
            !.prev_dG_ = ResizeMat(s.prev_dG_, d, m, heap),
            !.prev_dF_ = ResizeMat(s.prev_dF_, d, m, heap),
            !.M_ = ResizeMat(s.M_, m, m, heap),
            !.theta_ = ResizeVec(s.theta_, m, heap),
            !.dF_scale_ = ResizeVec(s.dF_scale_, m, heap),
            !.iter_ = 0,
            !.col_idx_ = 0,
            !.ret = NoValue]

\* What replace can do on an instance that was never initialized: it has no
\* assertion, and maps dim_ = -1 scalars.  A negative size breaks the
\* precondition of Eigen::Map, which a build with Eigen's debug checks
\* answers by aborting, and any other build by undefined behaviour: the
\* call returns with current_u_ holding whatever w the build produced.
UninitReplace(s, w) ==
    IF w = NoValue THEN Abort(s)
    ELSE [s EXCEPT !.current_u_ = w, !.ret = NoValue]

\* Mutant of replace: it also restarts the history.
replaceRestarts(s, u, w) ==
    IF s.dim_ < 0 THEN UninitReplace(s, w)
    ELSE [s EXCEPT !.current_u_ = u, !.iter_ = 0, !.col_idx_ = 0,
                   !.ret = NoValue]

\* replace(u); w is the outcome taken when dim_ is negative
replace(s, u, w) ==
    IF s.dim_ < 0 THEN UninitReplace(s, w)
    ELSE [s EXCEPT !.current_u_ = u, !.ret = NoValue]

\* int m_k = std::min(m_, iter_)
m_k(s) == Min(s.m_, s.iter_)

\* Mutant of Residual: the operands are swapped.
ResidualSwapped(s, G) == [s EXCEPT !.current_F_ = VSub(s.current_u_, G)]

\* current_F_ = G - current_u_
Residual(s, G) == [s EXCEPT !.current_F_ = VSub(G, s.current_u_)]

\* Mutant of ColdStart: it also advances the write index.
ColdStartAdvances(s, G) ==
    [s EXCEPT
        !.prev_dF_ = SetCol(s.prev_dF_, 0, VNeg(s.current_F_)),
        !.prev_dG_ = SetCol(s.prev_dG_, 0, VNeg(G)),
        !.current_u_ = G,
        !.col_idx_ = (s.col_idx_ + 1) % s.m_]

\* Mutant of ColdStart: current_u_ = G is missing.
ColdStartKeepsIterate(s, G) ==
    [s EXCEPT
        !.prev_dF_ = SetCol(s.prev_dF_, 0, VNeg(s.current_F_)),
        !.prev_dG_ = SetCol(s.prev_dG_, 0, VNeg(G))]

\* if (iter_ == 0): seed column 0 with -F and -G, and return G
ColdStart(s, G) ==
    [s EXCEPT
        !.prev_dF_ = SetCol(s.prev_dF_, 0, VNeg(s.current_F_)),
        !.prev_dG_ = SetCol(s.prev_dG_, 0, VNeg(G)),
        !.current_u_ = G]

\* Mutant of Finalize: the column is divided by the clamped scale, the
\* norm itself is stored in dF_scale_.
FinalizeStoresNorm(s, G) ==
    LET c     == s.col_idx_
        dF    == VAdd(Col(s.prev_dF_, c), s.current_F_)
        dG    == VAdd(Col(s.prev_dG_, c), G)
        scale == Max(eps, Norm(dF))
    IN  [s EXCEPT
            !.prev_dF_ = SetCol(s.prev_dF_, c, VDiv(dF, scale)),
            !.prev_dG_ = SetCol(s.prev_dG_, c, dG),
            !.dF_scale_ = [s.dF_scale_ EXCEPT ![c] = Norm(dF)]]

\* Mutant of Finalize: the scale is the norm, without the eps clamp.
FinalizeUnclamped(s, G) ==
    LET c     == s.col_idx_
        dF    == VAdd(Col(s.prev_dF_, c), s.current_F_)
        dG    == VAdd(Col(s.prev_dG_, c), G)
        scale == Norm(dF)
    IN  [s EXCEPT
            !.prev_dF_ = SetCol(s.prev_dF_, c, VDiv(dF, scale)),
            !.prev_dG_ = SetCol(s.prev_dG_, c, dG),
            !.dF_scale_ = [s.dF_scale_ EXCEPT ![c] = scale]]

\* prev_dF_.col(col_idx_) += current_F_; prev_dG_.col(col_idx_) += G;
\* scale = std::max(eps, norm); dF_scale_(col_idx_) = scale;
\* prev_dF_.col(col_idx_) /= scale
Finalize(s, G) ==
    LET c     == s.col_idx_
        dF    == VAdd(Col(s.prev_dF_, c), s.current_F_)
        dG    == VAdd(Col(s.prev_dG_, c), G)
        scale == Max(eps, Norm(dF))
    IN  [s EXCEPT
            !.prev_dF_ = SetCol(s.prev_dF_, c, VDiv(dF, scale)),
            !.prev_dG_ = SetCol(s.prev_dG_, c, dG),
            !.dF_scale_ = [s.dF_scale_ EXCEPT ![c] = scale]]

\* if (m_k == 1): theta_(0) = 0; M_(0, 0) = dF_sqrnorm;
\* if (dF_norm > eps) theta_(0) = (col / dF_norm).dot(current_F_ / dF_norm)
SingleColumn(s) ==
    LET col        == Col(s.prev_dF_, s.col_idx_)
        dF_sqrnorm == SquaredNorm(col)
        dF_norm    == Sqrt(dF_sqrnorm)
        theta0     == IF Less(eps, dF_norm)
                      THEN Dot(VDiv(col, dF_norm), VDiv(s.current_F_, dF_norm))
                      ELSE Zero
    IN  [s EXCEPT
            !.theta_ = [s.theta_ EXCEPT ![0] = theta0],
            !.M_ = [s.M_ EXCEPT ![0] = [s.M_[0] EXCEPT ![0] = dF_sqrnorm]]]

\* Mutant of NormalEquations: the row col_idx_ of M_ is updated, the
\* column is not.
NormalEquationsRowOnly(s) ==
    LET n              == m_k(s)
        c              == s.col_idx_
        new_inner_prod == BlockTransposeTimes(s.prev_dF_, n,
                                              Col(s.prev_dF_, c))
        M1 == [s.M_ EXCEPT ![c] =
                 Tab(s.m_, LAMBDA j :
                    IF j < n THEN new_inner_prod[j] ELSE s.M_[c][j])]
        x  == CodSolve(M1, n,
                       BlockTransposeTimes(s.prev_dF_, n, s.current_F_))
    IN  [s EXCEPT
            !.M_ = M1,
            !.theta_ = Tab(s.m_, LAMBDA j :
                          IF j < n THEN x[j] ELSE s.theta_[j])]

\* else: the row and the column col_idx_ of M_ get the inner products of
\* the new column with the m_k leading columns; theta_.head(m_k) is the
\* solution of the normal equations
NormalEquations(s) ==
    LET n              == m_k(s)
        c              == s.col_idx_
        new_inner_prod == BlockTransposeTimes(s.prev_dF_, n,
                                              Col(s.prev_dF_, c))
        M1 == [s.M_ EXCEPT ![c] =
                 Tab(s.m_, LAMBDA j :
                    IF j < n THEN new_inner_prod[j] ELSE s.M_[c][j])]
        M2 == Tab(s.m_, LAMBDA i :
                 IF i < n THEN [M1[i] EXCEPT ![c] = new_inner_prod[i]]
                 ELSE M1[i])
        x  == CodSolve(M2, n,
                       BlockTransposeTimes(s.prev_dF_, n, s.current_F_))
    IN  [s EXCEPT
            !.M_ = M2,
            !.theta_ = Tab(s.m_, LAMBDA j :
                          IF j < n THEN x[j] ELSE s.theta_[j])]

\* Mutant of Mix: all m_ columns are mixed, not the m_k leading ones.
MixAllColumns(s, G) ==
    LET n == s.m_
        w == Tab(n, LAMBDA j : Div(s.theta_[j], s.dF_scale_[j]))
    IN  [s EXCEPT !.current_u_ = VSub(G, BlockTimes(s.prev_dG_, n, w))]

\* current_u_ = G - prev_dG_.block(0, 0, dim_, m_k)
\*                  * (theta_.head(m_k) / dF_scale_.head(m_k))
Mix(s, G) ==
    LET n == m_k(s)
        w == Tab(n, LAMBDA j : Div(s.theta_[j], s.dF_scale_[j]))
    IN  [s EXCEPT !.current_u_ = VSub(G, BlockTimes(s.prev_dG_, n, w))]

\* Mutant of Advance: the new column is seeded with F and G, not -F and -G.
AdvanceSeedsUnsigned(s, G) ==
    LET c == (s.col_idx_ + 1) % s.m_
    IN  [s EXCEPT
            !.col_idx_ = c,
            !.prev_dF_ = SetCol(s.prev_dF_, c, s.current_F_),
            !.prev_dG_ = SetCol(s.prev_dG_, c, G)]

\* Mutant of Advance: the index stays; the finalized column is reseeded.
AdvanceInPlace(s, G) ==
    LET c == s.col_idx_
    IN  [s EXCEPT
            !.col_idx_ = c,
            !.prev_dF_ = SetCol(s.prev_dF_, c, VNeg(s.current_F_)),
            !.prev_dG_ = SetCol(s.prev_dG_, c, VNeg(G))]

\* col_idx_ = (col_idx_ + 1) % m_; the new column is seeded with -F, -G
Advance(s, G) ==
    LET c == (s.col_idx_ + 1) % s.m_
    IN  [s EXCEPT
            !.col_idx_ = c,
            !.prev_dF_ = SetCol(s.prev_dF_, c, VNeg(s.current_F_)),
            !.prev_dG_ = SetCol(s.prev_dG_, c, VNeg(G))]

\* if (m_k == 1) ... else ...: theta_ for the finalized history
Solve(s) == IF m_k(s) = 1 THEN SingleColumn(s) ELSE NormalEquations(s)

\* else (iter_ > 0): lines 67-111
Accelerate(s, G) == Advance(Mix(Solve(Finalize(s, G)), G), G)

\* if (iter_ == 0) ... else ...
Update(s, G) == IF s.iter_ = 0 THEN ColdStart(s, G) ELSE Accelerate(s, G)

\* iter_++; return current_u_;
Return(s) == [s EXCEPT !.iter_ = s.iter_ + 1, !.ret = s.current_u_]

\* compute past its assertion: lines 58-115
Iterate(s, g) == Return(Update(Residual(s, g), g))

\* compute(g): assert(iter_ >= 0), then the iteration
compute(s, g) ==
    IF ~ (s.iter_ >= 0) THEN Abort(s) ELSE Iterate(s, g)

-----------------------------------------------------------------------------
(* The calls explored.  Two instances are driven by the same sequence of   *)
(* calls with the same arguments; they differ only in what their unset     *)
(* storage holds.                                                          *)

\* The largest window size m passed to init
MaxM == 2

\* compute is called while iter_ is below MaxIter
MaxIter == 4

\* In the units below eps the normalized columns are arbitrary fractions,
\* and the exact normal equations of a longer run leave TLC's 32 bits:
\* there compute is called while iter_ is below MaxTinyIter
MaxTinyIter == 2

\* The number of init calls
MaxInit == 2

\* The arguments' components are 0 .. MaxVal times the unit
MaxVal == 1

\* The dimensions d passed to init
Dims == {1}

\* The decimal exponents of the unit the caller's data is in: 1, and two
\* that put every increment below eps, one of them below eps * eps
Units == {0, -20, -30}

Instances == {1, 2}

VARIABLES
    aa,        \* the two instances
    pre,       \* the two instances before the last call
    call,      \* the last call: [op, m, v]
    unit,      \* the decimal exponent of the caller's unit
    nInit,     \* the number of init calls made
    nCompute,  \* the number of compute calls since the last init
    identity,  \* every compute since the last init was given g = current_u_
    replaced,  \* replace has been called since the last init
    start,     \* u0 of the last init
    scaled,    \* the slots of dF_scale_ written since the last init
    hist,      \* [g, F] of the last m_ + 1 computes since the last init
    fresh      \* a new instance given the last init and the calls since

vars == <<aa, pre, call, unit, nInit, nCompute, identity, replaced, start,
          scaled, hist, fresh>>

\* What the unset storage of instance i holds: a different value in each
\* instance, in the caller's unit (3 and 7 times 10^unit).
heap == [i \in Instances |-> Canon(4 * i - 1, 1, unit)]

Vals == {Canon(k, 1, unit) : k \in 0 .. MaxVal}

\* The vectors of d components a caller passes
Args(d) == [0 .. d - 1 -> Vals]

\* The last n entries of the sequence h
Recent(h, n) == IF Len(h) <= n THEN h ELSE SubSeq(h, Len(h) - n + 1, Len(h))

Alive == \A i \in Instances : aa[i].status = "ok"

Init ==
    /\ unit \in Units
    /\ aa = [i \in Instances |-> AndersonAcceleration]
    /\ pre = aa
    /\ call = [op |-> "new", m |-> 0, v |-> NoValue]
    /\ nInit = 0
    /\ nCompute = 0
    /\ identity = TRUE
    /\ replaced = FALSE
    /\ start = NoValue
    /\ scaled = {}
    /\ hist = << >>
    /\ fresh = AndersonAcceleration

CallInit ==
    /\ Alive
    /\ nInit < MaxInit
    /\ \E m \in -1 .. MaxM, d \in Dims :
         \E u0 \in Args(d) :
            /\ aa' = [i \in Instances |-> init(aa[i], m, d, u0, heap[i])]
            /\ fresh' = init(AndersonAcceleration, m, d, u0, heap[1])
            /\ scaled' = IF m > 0 THEN {} ELSE scaled
            /\ hist' = IF m > 0 THEN << >> ELSE hist
            /\ call' = [op |-> "init", m |-> m, v |-> u0]
            /\ nCompute' = IF m > 0 THEN 0 ELSE nCompute
            /\ identity' = IF m > 0 THEN TRUE ELSE identity
            /\ replaced' = IF m > 0 THEN FALSE ELSE replaced
            /\ start' = IF m > 0 THEN u0 ELSE start
    /\ pre' = aa
    /\ nInit' = nInit + 1
    /\ UNCHANGED unit

\* The outcomes of replace on an instance never initialized: NoValue is
\* the abort, the others are what current_u_ holds when the call returns.
UninitOutcomes(i) == {NoValue, << >>, Tab(1, LAMBDA k : heap[i])}

CallReplace ==
    /\ Alive
    /\ \E d \in Dims :
         \E u \in Args(d) :
            /\ IF \E i \in Instances : aa[i].dim_ < 0
               THEN \E w1 \in UninitOutcomes(1), w2 \in UninitOutcomes(2) :
                       /\ aa' = [i \in Instances |->
                                   replace(aa[i], u, IF i = 1 THEN w1 ELSE w2)]
                       /\ fresh' = replace(fresh, u, w1)
               ELSE /\ aa' = [i \in Instances |-> replace(aa[i], u, NoValue)]
                    /\ fresh' = replace(fresh, u, NoValue)
            /\ call' = [op |-> "replace", m |-> 0, v |-> u]
    /\ pre' = aa
    /\ replaced' = TRUE
    /\ UNCHANGED <<unit, nInit, nCompute, identity, start, scaled, hist>>

CallCompute ==
    /\ Alive
    /\ aa[1].iter_ < (IF unit = 0 THEN MaxIter ELSE MaxTinyIter)
    /\ \E d \in Dims :
         \E g \in Args(d) :
            /\ aa' = [i \in Instances |-> compute(aa[i], g)]
            /\ call' = [op |-> "compute", m |-> 0, v |-> g]
            /\ identity' = (identity /\ \A i \in Instances : g = aa[i].current_u_)
            /\ fresh' = compute(fresh, g)
            /\ hist' = IF aa[1].iter_ >= 0
                       THEN Recent(Append(hist,
                                          [g |-> g,
                                           F |-> VSub(g, aa[1].current_u_)]),
                                   aa[1].m_ + 1)
                       ELSE hist
    /\ scaled' = IF aa[1].iter_ >= 1 THEN scaled \cup {aa[1].col_idx_}
                 ELSE scaled
    /\ pre' = aa
    /\ nCompute' = IF aa[1].iter_ >= 0 THEN nCompute + 1 ELSE nCompute
    /\ UNCHANGED <<unit, nInit, replaced, start>>

Next == CallInit \/ CallReplace \/ CallCompute

Spec == Init /\ [][Next]_vars

-----------------------------------------------------------------------------
(* Properties *)

Fields == {"m_", "dim_", "iter_", "col_idx_", "current_u_", "current_F_",
           "prev_dG_", "prev_dF_", "M_", "theta_", "dF_scale_"}

\* C1 (cold start): the first compute(g) after init, whatever replace calls
\* came between, returns exactly g, and g is the current iterate afterwards.
ColdStartReturnsG ==
    \A i \in Instances :
        (call.op = "compute" /\ pre[i].iter_ = 0)
            => (aa[i].ret = call.v /\ aa[i].current_u_ = call.v)

\* A first compute(g) that follows a replace(v), with g, v and u0 not all
\* the same.
ColdStartAfterReplace ==
    /\ call.op = "compute"
    /\ pre[1].iter_ = 0
    /\ replaced
    /\ pre[1].current_u_ # call.v
    /\ pre[1].current_u_ # start
    /\ aa[1].ret = call.v

\* C2 (replace, frame): replace(u) on an initialized instance leaves every
\* field but current_u_ as it was, and current_u_ is u.
ReplaceChangesOnlyIterate ==
    \A i \in Instances :
        (call.op = "replace" /\ pre[i].iter_ >= 0)
            => /\ aa[i].current_u_ = call.v
               /\ \A f \in Fields \ {"current_u_"} : aa[i][f] = pre[i][f]
               /\ aa[i].status = "ok"

\* A replace that changes the iterate of an instance with two finalized
\* history columns.
ReplaceWithHistory ==
    /\ call.op = "replace"
    /\ pre[1].m_ = 2
    /\ pre[1].iter_ >= 3
    /\ aa[1].current_u_ # pre[1].current_u_

\* C5 (compute before init): the assertion fails; the call returns nothing
\* and no field has changed.
ComputeBeforeInitAborts ==
    \A i \in Instances :
        (call.op = "compute" /\ pre[i].iter_ < 0)
            => /\ aa[i].status = "aborted"
               /\ aa[i].ret = NoValue
               /\ \A f \in Fields : aa[i][f] = pre[i][f]

\* compute has been called on a newly constructed instance.
ComputeCalledBeforeInit ==
    /\ call.op = "compute"
    /\ pre[1] = AndersonAcceleration
    /\ aa[1].status = "aborted"

\* C9 (iteration counter): 0 right after init; every compute adds exactly
\* one; replace leaves it; so it is the number of computes since init.
IterCountsComputes ==
    \A i \in Instances :
        /\ (call.op = "init" /\ aa[i].status = "ok") => aa[i].iter_ = 0
        /\ (call.op = "compute" /\ pre[i].iter_ >= 0)
              => aa[i].iter_ = pre[i].iter_ + 1
        /\ (call.op = "replace" /\ aa[i].status = "ok")
              => aa[i].iter_ = pre[i].iter_
        /\ (aa[i].status = "ok" /\ nInit > 0 /\ aa[i].iter_ >= 0)
              => aa[i].iter_ = nCompute

\* After a second init, computes and a replace, the counter is 2.
CountedAfterReinit ==
    /\ nInit = 2
    /\ replaced
    /\ call.op = "compute"
    /\ nCompute = 2
    /\ aa[1].iter_ = 2

\* C3 (replace, then compute): the residual of a compute(g) that follows
\* replace(v) is g - v; the compute advances the counter, finalizes the
\* slot and keeps the other slots' scales, columns and Gram entries that
\* the instance had before the replace, and ends in the state compute
\* reaches from the state before the replace with v as the iterate.
ReplaceThenCompute ==
    [][(call.op = "replace" /\ call'.op = "compute")
         => \A i \in Instances :
              pre[i].iter_ >= 0 =>
                LET v      == call.v
                    g      == call'.v
                    before == pre[i]
                    after  == aa'[i]
                    c      == before.col_idx_
                    others == (0 .. before.m_ - 1) \ {c}
                IN  /\ after.current_F_ = VSub(g, v)
                    /\ after.iter_ = before.iter_ + 1
                    /\ before.iter_ >= 1 =>
                         /\ after.col_idx_ = (c + 1) % before.m_
                         /\ after.dF_scale_[c] =
                              Max(eps, Norm(VAdd(Col(before.prev_dF_, c),
                                                 VSub(g, v))))
                         /\ \A j \in others :
                              /\ after.dF_scale_[j] = before.dF_scale_[j]
                              /\ \A k \in others :
                                   after.M_[k][j] = before.M_[k][j]
                         /\ \A j \in others \ {after.col_idx_} :
                              /\ Col(after.prev_dF_, j) = Col(before.prev_dF_, j)
                              /\ Col(after.prev_dG_, j) = Col(before.prev_dG_, j)
                    /\ after = compute([before EXCEPT !.current_u_ = v], g)
      ]_vars

\* A compute(g) right after a replace(v) that changed the iterate, on an
\* instance of window 2 with one finalized column: its residual is g - v
\* and is not g minus the iterate the previous compute returned.
ComputedAfterReplace ==
    /\ call.op = "compute"
    /\ pre[1].ret = NoValue
    /\ pre[1].m_ = 2
    /\ pre[1].iter_ = 2
    /\ aa[1].current_F_ = VSub(call.v, pre[1].current_u_)
    /\ aa[1].current_F_ # Zero
    /\ aa[1].ret # call.v

\* The slots of index >= m_k overwritten with NaN: the columns of prev_dF_
\* and prev_dG_, the entries of dF_scale_, the rows and columns of M_.
Corrupt(s) ==
    LET n == m_k(s)
    IN  [s EXCEPT
            !.prev_dF_ = Tab(Rows(s.prev_dF_), LAMBDA k :
                            Tab(s.m_, LAMBDA j :
                               IF j >= n THEN NaN ELSE s.prev_dF_[k][j])),
            !.prev_dG_ = Tab(Rows(s.prev_dG_), LAMBDA k :
                            Tab(s.m_, LAMBDA j :
                               IF j >= n THEN NaN ELSE s.prev_dG_[k][j])),
            !.dF_scale_ = Tab(s.m_, LAMBDA j :
                             IF j >= n THEN NaN ELSE s.dF_scale_[j]),
            !.M_ = Tab(s.m_, LAMBDA k :
                      Tab(s.m_, LAMBDA j :
                         IF j >= n \/ k >= n THEN NaN ELSE s.M_[k][j]))]

\* C4 (window bound): the iterate a compute returns is the one it returns
\* with every slot of index >= m_k overwritten, and the two instances,
\* whose never-written slots differ, return the same iterate at every call.
WindowBound ==
    (call.op = "compute" /\ pre[1].iter_ >= 0)
        => /\ \A i \in Instances :
                compute(Corrupt(pre[i]), call.v).ret = aa[i].ret
           /\ aa[1].ret = aa[2].ret

\* A mixing compute with m_k = 1 < m: slot 1 differs between the instances
\* in prev_dF_, prev_dG_, dF_scale_ and M_.
StaleSlotUnread ==
    /\ call.op = "compute"
    /\ pre[1].m_ = 2
    /\ pre[1].iter_ = 1
    /\ Col(pre[1].prev_dF_, 1) # Col(pre[2].prev_dF_, 1)
    /\ Col(pre[1].prev_dG_, 1) # Col(pre[2].prev_dG_, 1)
    /\ pre[1].dF_scale_[1] # pre[2].dF_scale_[1]
    /\ pre[1].M_[1] # pre[2].M_[1]
    /\ aa[1].ret # call.v
    /\ aa[1].ret = aa[2].ret

\* C6 (replace before init), as claimed: the call aborts and current_u_ is
\* not modified.
ReplaceBeforeInitAborts ==
    \A i \in Instances :
        (call.op = "replace" /\ pre[i].dim_ < 0)
            => /\ aa[i].status = "aborted"
               /\ aa[i].current_u_ = pre[i].current_u_

\* C7 (fixed point): while every compute since init is given g equal to
\* the current iterate, each returns exactly g; with no replace in between
\* the iterate is still u0.
FixedPointStays ==
    \A i \in Instances :
        (call.op = "compute" /\ pre[i].iter_ >= 0 /\ identity)
            => /\ aa[i].ret = call.v
               /\ aa[i].current_u_ = call.v
               /\ ~ replaced => aa[i].current_u_ = start

\* The fourth compute of an identity run with window 2: the normal
\* equations are solved over two zero columns.
FixedPointWindowFull ==
    /\ call.op = "compute"
    /\ identity
    /\ ~ replaced
    /\ pre[1].m_ = 2
    /\ pre[1].iter_ = 3
    /\ aa[1].current_F_ = Tab(1, LAMBDA k : Zero)
    /\ aa[1].ret = start

\* The increment the second compute finalizes, before it is normalized
FirstIncrement(i) ==
    VAdd(Col(pre[i].prev_dF_, 0), VSub(call.v, pre[i].current_u_))

\* C8 (single-column guard), as claimed: with m = 1, when the first
\* increment has norm at most eps, the second compute sets theta to 0 and
\* returns exactly g.
SingleColumnGuard ==
    \A i \in Instances :
        (/\ call.op = "compute"
         /\ pre[i].m_ = 1
         /\ pre[i].iter_ = 1
         /\ ~ Less(eps, Norm(FirstIncrement(i))))
            => /\ aa[i].theta_[0] = Zero
               /\ aa[i].ret = call.v

\* C10 (determinism): two instances given the same init and the same calls
\* return the same iterate at every compute, whatever their unset storage
\* held.
Determinism ==
    (call.op = "compute" /\ nInit > 0)
        => /\ aa[1].ret = aa[2].ret
           /\ aa[1].current_u_ = aa[2].current_u_
           /\ aa[1].status = aa[2].status

\* A mixing compute after which the two instances still differ in theta_
\* and M_, and agree on the iterate they return.
SameIterateDifferentStorage ==
    /\ call.op = "compute"
    /\ nInit > 0
    /\ pre[1].iter_ >= 1
    /\ aa[1].theta_ # aa[2].theta_
    /\ aa[1].M_ # aa[2].M_
    /\ aa[1].ret # call.v
    /\ aa[1].ret = aa[2].ret

\* The instance at the point where compute(g) solves and mixes: the
\* residual is taken and the slot col_idx_ is finalized (lines 59-73)
AtSolve(s, g) == Finalize(Residual(s, g), g)

\* C11 (Gram matrix): when a compute with m_k > 1 solves the normal
\* equations, M_(r, j) for r, j < m_k is the inner product of the
\* normalized columns r and j of prev_dF_, so the block is symmetric and
\* is its full recomputation, also after the write index wrapped around.
GramConsistent ==
    \A i \in Instances :
        (call.op = "compute" /\ pre[i].iter_ >= 1 /\ m_k(pre[i]) > 1)
            => LET s1 == AtSolve(pre[i], call.v)
                   n  == m_k(pre[i])
               IN  \A r, j \in 0 .. n - 1 :
                      /\ aa[i].M_[r][j] = Dot(Col(s1.prev_dF_, r),
                                              Col(s1.prev_dF_, j))
                      /\ aa[i].M_[r][j] = aa[i].M_[j][r]

\* A solve after the write index wrapped around: slot 0 is finalized a
\* second time, both columns are nonzero and not orthogonal.
GramAfterWrap ==
    /\ call.op = "compute"
    /\ pre[1].m_ = 2
    /\ pre[1].iter_ = 3
    /\ pre[1].col_idx_ = 0
    /\ aa[1].M_[0][1] # Zero
    /\ aa[1].M_[0][0] # Zero
    /\ aa[1].M_[1][1] # Zero
    /\ aa[1].M_[0][1] = Dot(Col(AtSolve(pre[1], call.v).prev_dF_, 0),
                            Col(AtSolve(pre[1], call.v).prev_dF_, 1))

\* C12 (circular write index): after init col_idx_ is in [0, m_); init
\* sets it to 0, the cold-start compute and replace leave it unchanged,
\* every later compute replaces it by (col_idx_ + 1) mod m_.
WriteIndexCircular ==
    \A i \in Instances :
        /\ aa[i].iter_ >= 0 => (0 <= aa[i].col_idx_ /\ aa[i].col_idx_ < aa[i].m_)
        /\ (call.op = "init" /\ call.m > 0) => aa[i].col_idx_ = 0
        /\ (call.op = "replace" /\ pre[i].iter_ >= 0)
              => aa[i].col_idx_ = pre[i].col_idx_
        /\ (call.op = "compute" /\ pre[i].iter_ = 0)
              => aa[i].col_idx_ = pre[i].col_idx_
        /\ (call.op = "compute" /\ pre[i].iter_ >= 1)
              => aa[i].col_idx_ = (pre[i].col_idx_ + 1) % pre[i].m_

\* A compute that moves the write index of a window of 2 from 1 back to 0.
WriteIndexWraps ==
    /\ call.op = "compute"
    /\ pre[1].m_ = 2
    /\ pre[1].col_idx_ = 1
    /\ pre[1].iter_ >= 1
    /\ aa[1].col_idx_ = 0

\* C14 (write index and counter): whenever iter_ >= 1, col_idx_ is
\* (iter_ - 1) mod m_; so the slot the next compute finalizes is below
\* m_k = min(m_, iter_), and is slot 0 when m_k = 1.
WriteIndexFollowsIter ==
    \A i \in Instances :
        aa[i].iter_ >= 1
            => /\ aa[i].col_idx_ = (aa[i].iter_ - 1) % aa[i].m_
               /\ aa[i].col_idx_ < m_k(aa[i])
               /\ m_k(aa[i]) = 1 => aa[i].col_idx_ = 0

\* After three computes on a window of 2 the index is back at 0, inside
\* the active block of 2; the instance was initialized twice.
IndexInsideActiveBlock ==
    /\ nInit = 2
    /\ aa[1].m_ = 2
    /\ aa[1].iter_ = 3
    /\ aa[1].col_idx_ = 0
    /\ m_k(aa[1]) = 2

\* The slot that holds the p-th most recent increment (p = 0 the newest)
\* when the slot being finalized is c, in a window of m
SlotOf(p, c, m) == (c - p + m) % m

\* C13 (history content): at the mixing step of the k-th compute since
\* init, k >= 2, the m_k = min(m_, k - 1) leading columns of prev_dG_ and
\* prev_dF_ are the increments g_j - g_(j-1) and the normalized
\* F_j - F_(j-1) of the m_k most recent pairs of consecutive computes,
\* each pair in a column of its own: none is a seed, none is older.
HistoryContent ==
    \A i \in Instances :
        (call.op = "compute" /\ pre[i].iter_ >= 1)
            => LET s1 == AtSolve(pre[i], call.v)
                   n  == m_k(pre[i])
                   c  == pre[i].col_idx_
                   L  == Len(hist)
                   dG(p) == VSub(hist[L - p].g, hist[L - p - 1].g)
                   dF(p) == VSub(hist[L - p].F, hist[L - p - 1].F)
               IN  /\ L >= n + 1
                   /\ hist[L].g = call.v
                   /\ hist[L].F = aa[i].current_F_
                   /\ {SlotOf(p, c, pre[i].m_) : p \in 0 .. n - 1} = 0 .. n - 1
                   /\ \A p \in 0 .. n - 1 :
                        LET j == SlotOf(p, c, pre[i].m_)
                        IN  /\ Col(s1.prev_dG_, j) = dG(p)
                            /\ Col(s1.prev_dF_, j) =
                                 VDiv(dF(p), Max(eps, Norm(dF(p))))
                            /\ j # aa[i].col_idx_ =>
                                 /\ Col(aa[i].prev_dG_, j) = dG(p)
                                 /\ Col(aa[i].prev_dF_, j) =
                                      Col(s1.prev_dF_, j)

\* The fourth compute on a window of 2, after a replace: slot 0 holds the
\* newest increment, slot 1 the one before, and they differ.
HistoryAfterWrap ==
    /\ call.op = "compute"
    /\ replaced
    /\ pre[1].m_ = 2
    /\ pre[1].iter_ = 3
    /\ Len(hist) = 3
    /\ Col(AtSolve(pre[1], call.v).prev_dG_, 0) = VSub(hist[3].g, hist[2].g)
    /\ Col(AtSolve(pre[1], call.v).prev_dG_, 1) = VSub(hist[2].g, hist[1].g)
    /\ VSub(hist[3].g, hist[2].g) # VSub(hist[2].g, hist[1].g)
    /\ VSub(hist[3].F, hist[2].F) # VSub(hist[2].F, hist[1].F)

\* C15 (scale divisors): every entry of dF_scale_ the mixing step of a
\* compute divides by, those of index below m_k, was written by the
\* finalization of its slot in this call or an earlier one since init,
\* and is at least eps, hence not zero.
ScaleDivisorsWritten ==
    \A i \in Instances :
        (call.op = "compute" /\ pre[i].iter_ >= 1)
            => \A j \in 0 .. m_k(pre[i]) - 1 :
                  /\ j \in scaled
                  /\ ~ IsNaN(aa[i].dF_scale_[j])
                  /\ ~ Less(aa[i].dF_scale_[j], eps)
                  /\ aa[i].dF_scale_[j] # Zero

\* A mixing compute after a re-init with the same window of 2: entry 1 of
\* dF_scale_ is left from before the init and is not divided by; entry 0,
\* of a zero increment, is the clamp eps.
StaleScaleUnused ==
    /\ call.op = "compute"
    /\ nInit = 2
    /\ pre[1].m_ = 2
    /\ pre[1].iter_ = 1
    /\ scaled = {0}
    /\ aa[1].dF_scale_[1] # heap[1]
    /\ aa[1].dF_scale_[0] = eps

\* C16 (re-initialization): after a second init, every compute returns
\* the iterate a newly constructed instance returns when given that init
\* and the calls made since; what the history, the scales, the Gram
\* matrix and the counters held before the init has no influence.
ReinitAsFresh ==
    \A i \in Instances :
        (call.op = "compute" /\ nInit >= 2 /\ pre[i].iter_ >= 0)
            => /\ aa[i].ret = fresh.ret
               /\ aa[i].current_u_ = fresh.current_u_
               /\ aa[i].iter_ = fresh.iter_
               /\ aa[i].col_idx_ = fresh.col_idx_

\* The first mixing compute on a window of 2 after a re-init that followed
\* other computes: the instance differs from the new one in the M_ and
\* dF_scale_ entries it carried over, and returns the same iterate.
ReinitCarriesStorage ==
    /\ call.op = "compute"
    /\ nInit = 2
    /\ pre[1].m_ = 2
    /\ pre[1].iter_ = 1
    /\ aa[1].dF_scale_ # fresh.dF_scale_
    /\ aa[1].M_ # fresh.M_
    /\ aa[1].ret = fresh.ret
    /\ aa[1].ret # call.v

\* C17 (init requires m > 0): init(m, d, u0) with m <= 0 aborts on the
\* assertion before any field is assigned: m_, dim_, iter_, col_idx_ and
\* the buffers keep their values, and an instance not yet initialized
\* stays so.
InitRejectsWindow ==
    \A i \in Instances :
        (call.op = "init" /\ call.m <= 0)
            => /\ aa[i].status = "aborted"
               /\ aa[i].ret = NoValue
               /\ \A f \in Fields : aa[i][f] = pre[i][f]
               /\ pre[i].iter_ < 0 => aa[i].iter_ < 0

\* init with a negative m on an instance that was initialized and has
\* computed: the call aborts, u0 differs from the iterate it leaves.
InitRejectedAfterUse ==
    /\ call.op = "init"
    /\ call.m < 0
    /\ pre[1].iter_ >= 2
    /\ call.v # aa[1].current_u_
    /\ aa[1].status = "aborted"
    /\ aa[1].iter_ = pre[1].iter_

=============================================================================
